---- MODULE Spec2Model ----
(***************************************************************************)
(* Drift tests of evidently (src/evidently/tests/data_drift_tests.py):     *)
(* the single-column drift test, the count / share tests over the drift    *)
(* table, the embeddings drift test and the two per-column test            *)
(* generators.                                                             *)
(*                                                                         *)
(* Optional values (Python's Optional[...]) are sequences of length at     *)
(* most one: None is the empty sequence, Some(v) holds v.  Numeric values  *)
(* that the code compares with float arithmetic (counts, shares, condition *)
(* bounds) are exact fractions <<numerator, denominator>>.  Thresholds of  *)
(* statistical tests are integers counting thousandths, drift scores are   *)
(* integers counting ten-thousandths.                                      *)
(***************************************************************************)
EXTENDS Integers, Sequences, FiniteSets, TLC

VARIABLES
    column_test,     \* the TestColumnDrift instance: its bound configuration
    column_metric,   \* what its ColumnDriftMetric's get_result() yields now
    column_check,    \* how the last TestColumnDrift.check() call ended
    column_repeat,   \* how the call before it ended, when both calls read the
                     \* same result of the metric (NotCalled otherwise)
    table_test,      \* the count / share test instance: kind and condition
    table_metric,    \* what its DataDriftTable's get_result() yields now
    table_check,     \* how the last check() call of the count / share test ended
    generator,       \* the generator instance: kind and configured overrides
    columns_info,    \* the DatasetColumns handed to generate()
    generated,       \* what the last generate() call returned
    generated_before,  \* what the generate() call before it returned
    resolve_calls,   \* the resolve_stattest_threshold calls of that generate()
    embeddings_test,    \* the TestEmbeddingsDrift instance
    embeddings_metric,  \* what its EmbeddingsDriftMetric's get_result() yields
    embeddings_check    \* how the last TestEmbeddingsDrift.check() call ended

vars == <<column_test, column_metric, column_check, column_repeat,
          table_test, table_metric, table_check,
          generator, columns_info, generated, generated_before, resolve_calls,
          embeddings_test, embeddings_metric, embeddings_check>>

column_vars == <<column_test, column_metric, column_check, column_repeat>>
table_vars == <<table_test, table_metric, table_check>>
generator_vars ==
    <<generator, columns_info, generated, generated_before, resolve_calls>>
embeddings_vars == <<embeddings_test, embeddings_metric, embeddings_check>>

\* ------------------------------------------------------------------ bounds

\* Largest number of eligible columns of a drift table.
MaxColumns == 20
\* Longest column group (categorical, numerical, text) of a schema.
MaxGroupLen == 2
\* Longest allow-list of the all-features generator.
MaxAllowLen == 2
\* Longest feature list of the custom-features generator.
MaxFeatures == 2

\* ---------------------------------------------------------- basic values

None == << >>
Some(v) == <<v>>
Val(o) == o[1]

\* Python truthiness of an Optional[List]: None and [] are both false.
Truthy(optlist) == optlist # None /\ Len(Val(optlist)) > 0

RECURSIVE SeqContains(_, _)
SeqContains(s, x) ==
    IF s = << >> THEN FALSE
    ELSE IF Head(s) = x THEN TRUE ELSE SeqContains(Tail(s), x)

\* Exact fractions.
Frac(n, d) == <<n, d>>
FracLt(a, b) == a[1] * b[2] < b[1] * a[2]
FracEq(a, b) == a[1] * b[2] = b[1] * a[2]
FracIn(a, S) == \E b \in S : FracEq(a, b)

\* TestStatus
SUCCESS == "SUCCESS"
FAIL == "FAIL"
ERROR == "ERROR"

\* DATA_DRIFT_GROUP.id
DATA_DRIFT_GROUP == "data_drift"
\* GroupingTypes.ByFeature.id
ByFeature == "by_feature"

\* How a call ended: not made yet, returned a value, or left by an exception.
\* `seen` is the metric result the call read (None when the read failed).
NotCalled == [ended |-> "not_called", value |-> None, seen |-> None]
Returned(v, seen) == [ended |-> "returned", value |-> Some(v), seen |-> seen]
Raised(seen) == [ended |-> "raised", value |-> None, seen |-> seen]

\* x / unit rounded to the nearest integer, a tie to the even one.
RoundHalfEven(x, unit) ==
    LET q == x \div unit
        r == x % unit
    IN  IF 2 * r < unit THEN q
        ELSE IF 2 * r > unit THEN q + 1
        ELSE IF q % 2 = 0 THEN q ELSE q + 1

\* np.round(x, 3) of a score counted in ten-thousandths, giving thousandths.
Round3(s) == RoundHalfEven(s, 10)

\* f"{p_value:.3g}" of a value counted in thousandths and below 100: three
\* significant digits, again in thousandths.
Format3g(v) ==
    IF v < 1000 THEN v
    ELSE IF v < 10000 THEN RoundHalfEven(v, 10) * 10
    ELSE RoundHalfEven(v, 100) * 100

\* ------------------------------------------------- single-column drift test

ColumnNames == {"season", "temp"}
StattestNames == {"psi", "ks"}
DriftScores == {499, 1235, 1245, 12367}
StattestThresholds == {50, 100}

\* ColumnDataDriftMetrics: the outcome of the metric for one column.
ColumnDataDriftMetrics ==
    [stattest_name : StattestNames,
     drift_score : DriftScores,
     stattest_threshold : StattestThresholds,
     drift_detected : BOOLEAN]

\* ColumnDriftParameter.from_metric
ColumnDriftParameter_from_metric(data, column_name) ==
    [stattest |-> data.stattest_name,
     score |-> Round3(data.drift_score),
     threshold |-> data.stattest_threshold,
     detected |-> data.drift_detected,
     column_name |-> column_name]

\* TestColumnDrift.__init__: the configuration bound to the test and to the
\* ColumnDriftMetric request it owns.
TestColumnDrift(column_name, stattest, stattest_threshold, is_critical) ==
    [column_name |-> column_name,
     stattest |-> stattest,
     stattest_threshold |-> stattest_threshold,
     is_critical |-> is_critical]

\* The status TestColumnDrift.check picks from the outcome.
ColumnDriftStatusFlipped(drift_info) ==
    IF drift_info.drift_detected THEN SUCCESS ELSE FAIL

ColumnDriftStatus(drift_info) ==
    IF ~drift_info.drift_detected THEN SUCCESS ELSE FAIL

ColumnDriftResultAccumulating(test, drift_info) ==
    LET carried == IF column_check.ended = "returned"
                   THEN Val(column_check.value).parameters.score
                   ELSE 0
        fresh == ColumnDriftParameter_from_metric(drift_info, test.column_name)
    IN  [name |-> "Drift per Column",
         description |-> <<test.column_name,
                           Format3g(Round3(drift_info.drift_score)),
                           drift_info.stattest_name,
                           drift_info.stattest_threshold>>,
         status |-> ColumnDriftStatus(drift_info),
         group |-> DATA_DRIFT_GROUP,
         groups |-> [by_feature |-> test.column_name],
         parameters |-> [fresh EXCEPT !.score = @ + carried]]

\* The TestResult TestColumnDrift.check builds from an outcome.  The
\* description is the tuple of the values its template interpolates; the
\* display name of a column given by its name is that name.
ColumnDriftResult(test, drift_info) ==
    [name |-> "Drift per Column",
     description |-> <<test.column_name,
                       Format3g(Round3(drift_info.drift_score)),
                       drift_info.stattest_name, drift_info.stattest_threshold>>,
     status |-> ColumnDriftStatus(drift_info),
     group |-> DATA_DRIFT_GROUP,
     groups |-> [by_feature |-> test.column_name],
     parameters |-> ColumnDriftParameter_from_metric(drift_info, test.column_name)]

\* Metric.get_result() of the column metric: the outcome, or a failure.
\* The metric either completes or raises; None stands for the failure.
ColumnMetricResults == {None} \cup {Some(d) : d \in ColumnDataDriftMetrics}

\* TestColumnDrift.check(): one read of the metric's result, no handler
\* around it, so a failing read leaves check() as an exception.
TestColumnDrift_check ==
    /\ column_check' =
          IF column_metric = None
          THEN Raised(None)
          ELSE Returned(ColumnDriftResult(column_test, Val(column_metric)),
                        column_metric)
    /\ column_repeat' =
          IF column_check.ended # "not_called" /\ column_check.seen = column_metric
          THEN column_check
          ELSE NotCalled
    /\ UNCHANGED <<column_test, column_metric>>
    /\ UNCHANGED <<table_vars, generator_vars, embeddings_vars>>

\* The metric engine (re)computes the column's drift: any outcome or failure.
ColumnDriftMetric_calculate ==
    /\ \E r \in ColumnMetricResults :
          /\ r # column_metric
          /\ column_metric' = r
    /\ UNCHANGED <<column_test, column_check, column_repeat>>
    /\ UNCHANGED <<table_vars, generator_vars, embeddings_vars>>

ColumnTests ==
    {TestColumnDrift(c, st, th, TRUE) :
        c \in ColumnNames,
        st \in {None} \cup {Some(s) : s \in {"psi"}},
        th \in {None} \cup {Some(t) : t \in {100}}}

\* ------------------------------------------------ count and share tests

ConditionFields == {"eq", "gt", "gte", "lt", "lte", "not_eq", "is_in", "not_in"}

\* TestValueCondition with no field set.
NoCondition == [f \in ConditionFields |-> None]

\* TestValueCondition(<field>=v)
Condition1(f, v) == [NoCondition EXCEPT ![f] = Some(v)]

\* TestValueCondition.has_condition(): some field is not None.  A field set
\* to 0 is set.
has_condition(c) == \E f \in ConditionFields : c[f] # None

\* TestValueCondition.check_value(): every set field must hold.  Approximate
\* equality of eq / not_eq has a tolerance far below the distance between
\* two values of the model, so it is equality of the fractions.
check_value(c, v) ==
    /\ c.eq # None => FracEq(v, Val(c.eq))
    /\ c.gt # None => FracLt(Val(c.gt), v)
    /\ c.gte # None => ~FracLt(v, Val(c.gte))
    /\ c.lt # None => FracLt(v, Val(c.lt))
    /\ c.lte # None => ~FracLt(Val(c.lte), v)
    /\ c.not_eq # None => ~FracEq(v, Val(c.not_eq))
    /\ c.is_in # None => FracIn(v, Val(c.is_in))
    /\ c.not_in # None => ~FracIn(v, Val(c.not_in))

Max(a, b) == IF a >= b THEN a ELSE b

\* The outcome of one column of the drift table.
TableColumnOutcome(detected) ==
    [stattest_name |-> "psi",
     drift_score |-> IF detected THEN 1235 ELSE 499,
     stattest_threshold |-> 100,
     drift_detected |-> detected]

\* DataDriftTableResults over n >= 1 eligible columns of which d drifted.
\* The i-th entry of drift_by_columns is the outcome of the i-th column; the
\* tests treat the columns of a table alike, so the drifted ones are listed
\* first.
DataDriftTableResults(n, d) ==
    [number_of_columns |-> n,
     number_of_drifted_columns |-> d,
     share_of_drifted_columns |-> Frac(d, n),
     drift_by_columns |-> [i \in 1..n |-> TableColumnOutcome(i <= d)]]

\* TestNumberOfDriftedColumns.get_condition; reads the table only when the
\* caller gave no condition.
NumberDefaultHalf(table) ==
    Condition1("lt", Frac(Max(0, table.number_of_columns \div 2), 1))

NumberDefaultAtLeastOne(table) ==
    Condition1("lt", Frac(Max(1, table.number_of_columns \div 3), 1))

NumberDefault(table) ==
    Condition1("lt", Frac(Max(0, table.number_of_columns \div 3), 1))

\* TestShareOfDriftedColumns.get_condition's default.
ShareDefaultLte == Condition1("lte", Frac(3, 10))

ShareDefault == Condition1("lt", Frac(3, 10))

\* Whether get_condition() uses the caller's condition.
UsesOwnConditionNonZero(test) ==
    \E f \in ConditionFields :
        /\ test.condition[f] # None
        /\ f \in {"is_in", "not_in"} \/ Val(test.condition[f])[1] # 0

UsesOwnCondition(test) == has_condition(test.condition)

\* get_condition() of the test, evaluated against an available table.
get_condition(test, table) ==
    IF UsesOwnCondition(test) THEN test.condition
    ELSE IF test.kind = "number" THEN NumberDefault(table)
    ELSE ShareDefault

\* calculate_value_for_test() of the test.
calculate_value_for_test(test, table) ==
    IF test.kind = "number" THEN Frac(table.number_of_drifted_columns, 1)
    ELSE table.share_of_drifted_columns

\* f"{value * 100:.3g}": the percentage with three significant digits, in
\* hundredths of a percent (rounded to the nearest).
Percent3g(share) ==
    LET n == share[1]
        d == share[2]
        RoundDiv(a, b) == (2 * a + b) \div (2 * b)
    IN  IF n >= d THEN RoundDiv(100 * n, d) * 100
        ELSE IF 10 * n >= d THEN RoundDiv(1000 * n, d) * 10
        ELSE RoundDiv(10000 * n, d)

\* get_description(value) of the test: the values its template interpolates.
get_description(test, table, value) ==
    IF test.kind = "number"
    THEN <<value[1], table.number_of_columns, get_condition(test, table)>>
    ELSE <<Percent3g(value), table.number_of_drifted_columns,
           table.number_of_columns, get_condition(test, table)>>

TestName(test) ==
    IF test.kind = "number" THEN "Number of Drifted Features"
    ELSE "Share of Drifted Columns"

\* BaseCheckValueTest.check(): the value, its description, and the verdict of
\* the condition on the value; ERROR when the table computation failed.
BaseCheckValueTest_check(test, metric) ==
    IF metric = None
    THEN [name |-> TestName(test), description |-> << >>, status |-> ERROR,
          group |-> DATA_DRIFT_GROUP]
    ELSE LET table == Val(metric)
             value == calculate_value_for_test(test, table)
         IN  [name |-> TestName(test),
              description |-> get_description(test, table, value),
              status |-> IF check_value(get_condition(test, table), value)
                         THEN SUCCESS ELSE FAIL,
              group |-> DATA_DRIFT_GROUP]

ColumnsDriftParametersAllDetected(table, condition) ==
    [features |-> [i \in 1..Len(table.drift_by_columns) |->
                      [ColumnDriftParameter_from_metric(table.drift_by_columns[i], None)
                          EXCEPT !.detected = TRUE]],
     condition |-> condition]

\* ColumnsDriftParameters.from_data_drift_table
ColumnsDriftParameters_from_data_drift_table(table, condition) ==
    [features |-> [i \in 1..Len(table.drift_by_columns) |->
                      ColumnDriftParameter_from_metric(table.drift_by_columns[i], None)],
     condition |-> condition]

\* BaseDataDriftMetricsTest.check(): the base verdict, then a second read of
\* the table, outside any handler, to build the parameters.
BaseDataDriftMetricsTest_check ==
    /\ LET result == BaseCheckValueTest_check(table_test, table_metric)
       IN  table_check' =
              IF table_metric = None
              THEN Raised(None)
              ELSE Returned(
                      [name |-> result.name,
                       description |-> result.description,
                       status |-> result.status,
                       group |-> DATA_DRIFT_GROUP,
                       parameters |-> ColumnsDriftParameters_from_data_drift_table(
                                         Val(table_metric),
                                         get_condition(table_test, Val(table_metric)))],
                      table_metric)
    /\ UNCHANGED <<table_test, table_metric>>
    /\ UNCHANGED <<column_vars, generator_vars, embeddings_vars>>

\* A new run: the metric engine computes the table over a dataset with one
\* more column than the last one it computed (or over a single column after
\* a failure).  The result of a check belongs to the run it was made in, so
\* the new run starts with no check made.
DataDriftTable_calculate ==
    /\ \E detected \in BOOLEAN :
          LET n == IF table_metric = None THEN 0
                   ELSE Val(table_metric).number_of_columns
              d == IF table_metric = None THEN 0
                   ELSE Val(table_metric).number_of_drifted_columns
          IN  /\ n < MaxColumns
              /\ table_metric' = Some(DataDriftTableResults(
                                    n + 1, IF detected THEN d + 1 ELSE d))
    /\ table_check' = NotCalled
    /\ UNCHANGED table_test
    /\ UNCHANGED <<column_vars, generator_vars, embeddings_vars>>

\* A new run in which the table computation fails: get_result() raises.
DataDriftTable_fail ==
    /\ table_metric # None
    /\ table_metric' = None
    /\ table_check' = NotCalled
    /\ UNCHANGED table_test
    /\ UNCHANGED <<column_vars, generator_vars, embeddings_vars>>

ConditionValues == {Frac(0, 1), Frac(2, 1), Frac(3, 10)}

\* The conditions a caller gives: none, one field, or a pair of fields.
CallerConditions ==
    {NoCondition}
    \cup {Condition1(f, v) :
            f \in {"eq", "gt", "gte", "lt", "lte", "not_eq"}, v \in ConditionValues}
    \cup {Condition1(f, S) :
            f \in {"is_in", "not_in"},
            S \in {{Frac(0, 1)}, {Frac(2, 1), Frac(3, 10)}}}
    \cup {[Condition1("gt", Frac(0, 1)) EXCEPT !.lte = Some(Frac(2, 1))],
          [Condition1("gte", Frac(0, 1)) EXCEPT !.lt = Some(Frac(3, 10))]}

TableTests == [kind : {"number", "share"}, condition : CallerConditions]

\* ------------------------------------------------- per-column generators

OverrideFields ==
    {"stattest", "cat_stattest", "num_stattest", "text_stattest",
     "per_column_stattest",
     "stattest_threshold", "cat_stattest_threshold", "num_stattest_threshold",
     "text_stattest_threshold", "per_column_stattest_threshold"}

\* One field of resolve_stattest_threshold: the per-column map's entry when
\* the map has the column, else the value set for the column's type, else
\* the global value, else None.
calculate_override(feature_name, feature_type, global, cat, num, text, per_column) ==
    IF per_column # None /\ feature_name \in DOMAIN Val(per_column)
    THEN Some(Val(per_column)[feature_name])
    ELSE IF feature_type = "cat" /\ cat # None THEN cat
    ELSE IF feature_type = "num" /\ num # None THEN num
    ELSE IF feature_type = "text" /\ text # None THEN text
    ELSE global

\* evidently.utils.data_drift_utils.resolve_stattest_threshold: the pair
\* (stattest, threshold), each field resolved on its own layers.
resolve_stattest_threshold(feature_name, feature_type, stattest, cat_stattest, num_stattest, text_stattest, per_column_stattest, stattest_threshold, cat_stattest_threshold, num_stattest_threshold, text_stattest_threshold, per_column_stattest_threshold) ==
    <<calculate_override(feature_name, feature_type, stattest, cat_stattest,
                         num_stattest, text_stattest, per_column_stattest),
      calculate_override(feature_name, feature_type, stattest_threshold,
                         cat_stattest_threshold, num_stattest_threshold,
                         text_stattest_threshold, per_column_stattest_threshold)>>

\* One call of resolve_stattest_threshold: its arguments by parameter name,
\* and the pair it returned.
ResolveCall(feature_name, feature_type, stattest, cat_stattest, num_stattest, text_stattest, per_column_stattest, stattest_threshold, cat_stattest_threshold, num_stattest_threshold, text_stattest_threshold, per_column_stattest_threshold) ==
    [feature_name |-> feature_name,
     feature_type |-> feature_type,
     stattest |-> stattest,
     cat_stattest |-> cat_stattest,
     num_stattest |-> num_stattest,
     text_stattest |-> text_stattest,
     per_column_stattest |-> per_column_stattest,
     stattest_threshold |-> stattest_threshold,
     cat_stattest_threshold |-> cat_stattest_threshold,
     num_stattest_threshold |-> num_stattest_threshold,
     text_stattest_threshold |-> text_stattest_threshold,
     per_column_stattest_threshold |-> per_column_stattest_threshold,
     returned |-> resolve_stattest_threshold(
                     feature_name, feature_type, stattest, cat_stattest,
                     num_stattest, text_stattest, per_column_stattest,
                     stattest_threshold, cat_stattest_threshold,
                     num_stattest_threshold, text_stattest_threshold,
                     per_column_stattest_threshold)]

\* TestAllFeaturesValueDrift.__init__; o holds the override arguments by
\* parameter name.
TestAllFeaturesValueDrift(columns, o, is_critical) ==
    [kind |-> "all",
     is_critical |-> is_critical,
     columns |-> columns,
     stattest |-> o.stattest,
     cat_stattest |-> o.cat_stattest,
     num_stattest |-> o.num_stattest,
     text_stattest |-> o.text_stattest,
     per_column_stattest |-> o.per_column_stattest,
     stattest_threshold |-> o.stattest_threshold,
     cat_stattest_threshold |-> o.cat_stattest_threshold,
     num_stattest_threshold |-> o.num_stattest_threshold,
     text_stattest_threshold |-> o.text_stattest_threshold,
     per_column_stattest_threshold |-> o.per_column_stattest_threshold]

\* TestCustomFeaturesValueDrift.__init__; the per-column threshold map is
\* stored as per_feature_threshold, and per_column_stattest_threshold keeps
\* the class attribute's None.
TestCustomFeaturesValueDrift(features, o, is_critical) ==
    [kind |-> "custom",
     is_critical |-> is_critical,
     features |-> features,
     stattest |-> o.stattest,
     cat_stattest |-> o.cat_stattest,
     num_stattest |-> o.num_stattest,
     text_stattest |-> o.text_stattest,
     per_column_stattest |-> o.per_column_stattest,
     stattest_threshold |-> o.stattest_threshold,
     cat_stattest_threshold |-> o.cat_stattest_threshold,
     num_stattest_threshold |-> o.num_stattest_threshold,
     text_stattest_threshold |-> o.text_stattest_threshold,
     per_column_stattest_threshold |-> None,
     per_feature_threshold |-> o.per_column_stattest_threshold]

\* The resolve_stattest_threshold call of TestAllFeaturesValueDrift.generate
\* for one column of a group.
AllFeaturesResolveSwapped(self, name, feature_type) ==
    ResolveCall(name, feature_type,
                self.stattest, self.num_stattest, self.cat_stattest,
                self.text_stattest, self.per_column_stattest,
                self.stattest_threshold, self.cat_stattest_threshold,
                self.num_stattest_threshold, self.text_stattest_threshold,
                self.per_column_stattest_threshold)

AllFeaturesResolve(self, name, feature_type) ==
    ResolveCall(name, feature_type,
                self.stattest, self.cat_stattest, self.num_stattest,
                self.text_stattest, self.per_column_stattest,
                self.stattest_threshold, self.cat_stattest_threshold,
                self.num_stattest_threshold, self.text_stattest_threshold,
                self.per_column_stattest_threshold)

\* `if self.columns and name not in self.columns: continue`
AllFeaturesSkips(self, name) ==
    Truthy(self.columns) /\ ~SeqContains(Val(self.columns), name)

\* One loop of TestAllFeaturesValueDrift.generate: the calls made for the
\* columns of one group, in the group's order.
RECURSIVE AllFeaturesGroup(_, _, _)
AllFeaturesGroup(self, names, feature_type) ==
    IF names = << >> THEN << >>
    ELSE IF AllFeaturesSkips(self, Head(names))
         THEN AllFeaturesGroup(self, Tail(names), feature_type)
         ELSE <<AllFeaturesResolve(self, Head(names), feature_type)>>
                 \o AllFeaturesGroup(self, Tail(names), feature_type)

\* The three loops of TestAllFeaturesValueDrift.generate, in their order.
AllFeaturesCallsNumFirst(self, info) ==
    AllFeaturesGroup(self, info.num_feature_names, "num")
       \o AllFeaturesGroup(self, info.cat_feature_names, "cat")
       \o AllFeaturesGroup(self, info.text_feature_names, "text")

AllFeaturesCalls(self, info) ==
    AllFeaturesGroup(self, info.cat_feature_names, "cat")
       \o AllFeaturesGroup(self, info.num_feature_names, "num")
       \o AllFeaturesGroup(self, info.text_feature_names, "text")

CustomFeaturesTypeNumFallback(info, name) ==
    IF SeqContains(info.cat_feature_names, name) THEN "cat"
    ELSE IF info.text_feature_names # << >> THEN "text"
    ELSE "num"

\* The type TestCustomFeaturesValueDrift.generate passes for a listed name.
CustomFeaturesType(info, name) ==
    IF SeqContains(info.cat_feature_names, name) THEN "cat"
    ELSE IF info.num_feature_names # << >> THEN "num"
    ELSE IF info.text_feature_names # << >> THEN "text"
    ELSE "datetime"

\* The resolve_stattest_threshold call of
\* TestCustomFeaturesValueDrift.generate for one listed name.
CustomFeaturesResolve(self, info, name) ==
    ResolveCall(name, CustomFeaturesType(info, name),
                self.stattest, self.cat_stattest, self.num_stattest,
                self.text_stattest, self.per_column_stattest,
                self.stattest_threshold, self.cat_stattest_threshold,
                self.num_stattest_threshold, self.text_stattest_threshold,
                self.per_column_stattest_threshold)

\* The loop of TestCustomFeaturesValueDrift.generate over self.features.
RECURSIVE CustomFeaturesLoopKnownOnly(_, _, _)
CustomFeaturesLoopKnownOnly(self, info, names) ==
    IF names = << >> THEN << >>
    ELSE IF \/ SeqContains(info.cat_feature_names, Head(names))
            \/ SeqContains(info.num_feature_names, Head(names))
            \/ SeqContains(info.text_feature_names, Head(names))
         THEN <<CustomFeaturesResolve(self, info, Head(names))>>
                 \o CustomFeaturesLoopKnownOnly(self, info, Tail(names))
         ELSE CustomFeaturesLoopKnownOnly(self, info, Tail(names))

RECURSIVE CustomFeaturesLoop(_, _, _)
CustomFeaturesLoop(self, info, names) ==
    IF names = << >> THEN << >>
    ELSE <<CustomFeaturesResolve(self, info, Head(names))>>
            \o CustomFeaturesLoop(self, info, Tail(names))

CustomFeaturesCalls(self, info) == CustomFeaturesLoop(self, info, self.features)

TestsOfCallsAccumulating(self, calls) ==
    (IF generated.ended = "returned" THEN Val(generated.value) ELSE << >>)
       \o [i \in 1..Len(calls) |->
              TestColumnDrift(calls[i].feature_name, calls[i].returned[1],
                              calls[i].returned[2], self.is_critical)]

\* The TestColumnDrift appended after each resolve_stattest_threshold call.
TestsOfCalls(self, calls) ==
    [i \in 1..Len(calls) |->
        TestColumnDrift(calls[i].feature_name, calls[i].returned[1],
                        calls[i].returned[2], self.is_critical)]

\* TestAllFeaturesValueDrift.generate(columns_info)
TestAllFeaturesValueDrift_generate ==
    /\ generator.kind = "all"
    /\ LET calls == AllFeaturesCalls(generator, columns_info)
       IN  /\ resolve_calls' = calls
           /\ generated' = Returned(TestsOfCalls(generator, calls), None)
           /\ generated_before' = generated
    /\ UNCHANGED <<generator, columns_info>>
    /\ UNCHANGED <<column_vars, table_vars, embeddings_vars>>

\* TestCustomFeaturesValueDrift.generate(columns_info)
TestCustomFeaturesValueDrift_generate ==
    /\ generator.kind = "custom"
    /\ LET calls == CustomFeaturesCalls(generator, columns_info)
       IN  /\ resolve_calls' = calls
           /\ generated' = Returned(TestsOfCalls(generator, calls), None)
           /\ generated_before' = generated
    /\ UNCHANGED <<generator, columns_info>>
    /\ UNCHANGED <<column_vars, table_vars, embeddings_vars>>

\* Column names of the schemas; the last two are never a categorical,
\* numerical or text column.
FeatureNames == {"season", "temp", "review"}
DatetimeName == "dteday"
UnknownName == "unknown_col"

SeqsUpTo(S, k) == UNION {[1..n -> S] : n \in 0..k}
DistinctSeqsUpTo(S, k) ==
    {s \in SeqsUpTo(S, k) : \A i, j \in 1..Len(s) : i # j => s[i] # s[j]}
SeqRange(s) == {s[i] : i \in 1..Len(s)}

\* DatasetColumns: the column names by type, no name in two groups.
DatasetColumns(cat, num, text, datetime) ==
    [cat_feature_names |-> cat,
     num_feature_names |-> num,
     text_feature_names |-> text,
     datetime_feature_names |-> datetime]

Schemas ==
    {DatasetColumns(c, n, t, d) :
        c \in DistinctSeqsUpTo(FeatureNames, MaxGroupLen),
        n \in DistinctSeqsUpTo(FeatureNames, MaxGroupLen),
        t \in DistinctSeqsUpTo(FeatureNames, MaxGroupLen),
        d \in {<< >>, <<DatetimeName>>}}

DisjointSchemas ==
    {s \in Schemas :
        /\ SeqRange(s.cat_feature_names) \cap SeqRange(s.num_feature_names) = {}
        /\ SeqRange(s.cat_feature_names) \cap SeqRange(s.text_feature_names) = {}
        /\ SeqRange(s.num_feature_names) \cap SeqRange(s.text_feature_names) = {}}

\* The three schemas every combination of overrides is tried on.
FewSchemas ==
    {DatasetColumns(<<"season">>, <<"temp">>, <<"review">>, <<DatetimeName>>),
     DatasetColumns(<< >>, << >>, <<"review">>, << >>),
     DatasetColumns(<< >>, << >>, << >>, <<DatetimeName>>)}

NoOverrides == [f \in OverrideFields |-> None]

\* Every combination of set / unset layers, each layer with a value of its
\* own; a per-column map is absent, empty, or holds the column temp.
AllOverrides ==
    [stattest : {None, Some("psi")},
     cat_stattest : {None, Some("chisquare")},
     num_stattest : {None, Some("wasserstein")},
     text_stattest : {None, Some("perc_text_content_drift")},
     per_column_stattest : {None, Some([n \in {} |-> "ks"]),
                            Some([n \in {"temp"} |-> "ks"])},
     stattest_threshold : {None, Some(50)},
     cat_stattest_threshold : {None, Some(100)},
     num_stattest_threshold : {None, Some(150)},
     text_stattest_threshold : {None, Some(200)},
     per_column_stattest_threshold : {None, Some([n \in {} |-> 250]),
                                      Some([n \in {"temp"} |-> 250])}]

\* A few combinations, tried on every schema and list.
SomeOverrides ==
    {NoOverrides,
     [NoOverrides EXCEPT !.stattest = Some("psi"),
                         !.num_stattest = Some("wasserstein"),
                         !.text_stattest_threshold = Some(200),
                         !.per_column_stattest_threshold =
                              Some([n \in {"review"} |-> 250])],
     [stattest |-> Some("psi"),
      cat_stattest |-> Some("chisquare"),
      num_stattest |-> Some("wasserstein"),
      text_stattest |-> Some("perc_text_content_drift"),
      per_column_stattest |-> Some([n \in {"temp"} |-> "ks"]),
      stattest_threshold |-> Some(50),
      cat_stattest_threshold |-> Some(100),
      num_stattest_threshold |-> Some(150),
      text_stattest_threshold |-> Some(200),
      per_column_stattest_threshold |-> Some([n \in {"season"} |-> 250])]}

AllowLists ==
    {None} \cup {Some(l) : l \in DistinctSeqsUpTo(FeatureNames \cup {DatetimeName},
                                                  MaxAllowLen)}

FeatureLists == SeqsUpTo(FeatureNames \cup {UnknownName}, MaxFeatures)

\* ---------------------------------------------------- embeddings drift test

EmbeddingsNames == {"small_subset", "big_subset"}
MethodNames == {"model", "ratio"}

\* The outcome of the EmbeddingsDriftMetric of an embeddings set; the score
\* counts ten-thousandths.
EmbeddingsDriftMetricResults(embeddings_name) ==
    [embeddings_name : {embeddings_name},
     drift_score : DriftScores,
     method_name : MethodNames,
     drift_detected : BOOLEAN]

\* TestEmbeddingsDrift.__init__
TestEmbeddingsDrift(embeddings_name, drift_method, is_critical) ==
    [embeddings_name |-> embeddings_name,
     drift_method |-> drift_method,
     is_critical |-> is_critical]

\* The wording TestEmbeddingsDrift.check puts in the description.
EmbeddingsDriftWord(drift_info) ==
    IF drift_info.drift_detected THEN "detected" ELSE "not detected"

\* The status TestEmbeddingsDrift.check picks from the outcome.
EmbeddingsDriftStatusByScore(drift_info) ==
    IF drift_info.drift_score < 1000 THEN SUCCESS ELSE FAIL

EmbeddingsDriftStatus(drift_info) ==
    IF ~drift_info.drift_detected THEN SUCCESS ELSE FAIL

\* The TestResult TestEmbeddingsDrift.check builds: the description is the
\* tuple of the values its template interpolates, the score with three
\* significant digits (f"{drift_score:.3g}", still in ten-thousandths).
EmbeddingsDriftResult(drift_info) ==
    [name |-> "Drift for embeddings",
     description |-> <<EmbeddingsDriftWord(drift_info),
                       drift_info.embeddings_name,
                       Format3g(drift_info.drift_score),
                       drift_info.method_name>>,
     status |-> EmbeddingsDriftStatus(drift_info),
     group |-> DATA_DRIFT_GROUP]

\* TestEmbeddingsDrift.check(): one read of the metric's result, no handler
\* around it.
TestEmbeddingsDrift_check ==
    /\ embeddings_check' =
          IF embeddings_metric = None
          THEN Raised(None)
          ELSE Returned(EmbeddingsDriftResult(Val(embeddings_metric)),
                        embeddings_metric)
    /\ UNCHANGED <<embeddings_test, embeddings_metric>>
    /\ UNCHANGED <<column_vars, table_vars, generator_vars>>

\* The metric engine (re)computes the drift of the test's embeddings set:
\* any outcome, or a failure.
EmbeddingsDriftMetric_calculate ==
    /\ \E r \in {None} \cup
                {Some(d) : d \in EmbeddingsDriftMetricResults(
                                     embeddings_test.embeddings_name)} :
          /\ r # embeddings_metric
          /\ embeddings_metric' = r
    /\ UNCHANGED <<embeddings_test, embeddings_check>>
    /\ UNCHANGED <<column_vars, table_vars, generator_vars>>

EmbeddingsTests ==
    {TestEmbeddingsDrift(n, m, TRUE) :
        n \in EmbeddingsNames,
        m \in {None} \cup {Some(x) : x \in MethodNames}}

\* Idle values of the parts a specification does not exercise.
IdleColumn ==
    /\ column_test = TestColumnDrift("season", None, None, TRUE)
    /\ column_metric = None
    /\ column_check = NotCalled
    /\ column_repeat = NotCalled

IdleTable ==
    /\ table_test = [kind |-> "number", condition |-> NoCondition]
    /\ table_metric = None
    /\ table_check = NotCalled

IdleGenerator ==
    /\ generator = TestAllFeaturesValueDrift(None, NoOverrides, TRUE)
    /\ columns_info = DatasetColumns(<< >>, << >>, << >>, << >>)
    /\ generated = NotCalled
    /\ generated_before = NotCalled
    /\ resolve_calls = << >>

IdleEmbeddings ==
    /\ embeddings_test = TestEmbeddingsDrift("small_subset", None, TRUE)
    /\ embeddings_metric = None
    /\ embeddings_check = NotCalled

InitColumn ==
    /\ column_test \in ColumnTests
    /\ column_metric = None
    /\ column_check = NotCalled
    /\ column_repeat = NotCalled
    /\ IdleTable
    /\ IdleGenerator
    /\ IdleEmbeddings

NextColumn ==
    \/ TestColumnDrift_check
    \/ ColumnDriftMetric_calculate

SpecColumn == InitColumn /\ [][NextColumn]_vars

InitTable ==
    /\ table_test \in TableTests
    /\ table_metric = None
    /\ table_check = NotCalled
    /\ IdleColumn
    /\ IdleGenerator
    /\ IdleEmbeddings

NextTable ==
    \/ BaseDataDriftMetricsTest_check
    \/ DataDriftTable_calculate
    \/ DataDriftTable_fail

SpecTable == InitTable /\ [][NextTable]_vars

\* Either every combination of overrides on a few schemas, or a few
\* combinations on every schema and every allow-list / feature list.
InitGenerator ==
    /\ \/ /\ columns_info \in FewSchemas
          /\ \E o \in AllOverrides :
                \/ generator = TestAllFeaturesValueDrift(None, o, TRUE)
                \/ \E l \in {<<"season", "temp">>, <<"review", UnknownName>>} :
                      generator = TestCustomFeaturesValueDrift(l, o, TRUE)
       \/ /\ columns_info \in DisjointSchemas
          /\ \E o \in SomeOverrides :
                \/ \E l \in AllowLists :
                      generator = TestAllFeaturesValueDrift(l, o, TRUE)
                \/ \E l \in FeatureLists :
                      generator = TestCustomFeaturesValueDrift(l, o, TRUE)
    /\ generated = NotCalled
    /\ generated_before = NotCalled
    /\ resolve_calls = << >>
    /\ IdleColumn
    /\ IdleTable
    /\ IdleEmbeddings

NextGenerator ==
    \/ TestAllFeaturesValueDrift_generate
    \/ TestCustomFeaturesValueDrift_generate

SpecGenerator == InitGenerator /\ [][NextGenerator]_vars

InitEmbeddings ==
    /\ embeddings_test \in EmbeddingsTests
    /\ embeddings_metric = None
    /\ embeddings_check = NotCalled
    /\ IdleColumn
    /\ IdleTable
    /\ IdleGenerator

NextEmbeddings ==
    \/ TestEmbeddingsDrift_check
    \/ EmbeddingsDriftMetric_calculate

SpecEmbeddings == InitEmbeddings /\ [][NextEmbeddings]_vars

\* ------------------------------------------------------------------ claims

\* C1: whenever TestColumnDrift.check() returns, the status is SUCCESS exactly
\* when the outcome it read has drift_detected false and FAIL exactly when it
\* has drift_detected true, whatever the outcome's score, threshold and
\* stattest name are.
C1_StatusFollowsDriftDetected ==
    column_check.ended = "returned" =>
        LET drift_info == Val(column_check.seen)
            status == Val(column_check.value).status
        IN  /\ status \in {SUCCESS, FAIL}
            /\ (status = SUCCESS) <=> ~drift_info.drift_detected
            /\ (status = FAIL) <=> drift_info.drift_detected

\* A check that read an outcome with drift detected although its score is the
\* lowest one and below the threshold, and returned FAIL.
C1_Witness ==
    /\ column_check.ended = "returned"
    /\ Val(column_check.seen).drift_detected
    /\ Val(column_check.seen).drift_score = 499
    /\ Val(column_check.seen).stattest_threshold = 100
    /\ Val(column_check.value).status = FAIL

\* C3: with no caller condition, the count test over a table of N columns, D
\* of them drifted, returns SUCCESS exactly when D < max(0, N div 3), with N
\* the column count of the table read by that evaluation; the condition it
\* echoes is lt = max(0, N div 3); N = 9, D = 2 gives lt = 3 and SUCCESS.
C3_NumberDefaultFromTable ==
    (/\ table_test.kind = "number"
     /\ ~has_condition(table_test.condition)
     /\ table_check.ended = "returned") =>
        LET N == Val(table_check.seen).number_of_columns
            D == Val(table_check.seen).number_of_drifted_columns
            result == Val(table_check.value)
        IN  /\ result.status \in {SUCCESS, FAIL}
            /\ (result.status = SUCCESS) <=> (D < Max(0, N \div 3))
            /\ result.parameters.condition
                  = Condition1("lt", Frac(Max(0, N \div 3), 1))
            /\ (N = 9 /\ D = 2) =>
                  /\ result.status = SUCCESS
                  /\ result.parameters.condition = Condition1("lt", Frac(3, 1))

\* The count test without a condition, evaluated on 9 columns, 2 drifted.
C3_Witness ==
    /\ table_test.kind = "number"
    /\ ~has_condition(table_test.condition)
    /\ table_check.ended = "returned"
    /\ Val(table_check.seen).number_of_columns = 9
    /\ Val(table_check.seen).number_of_drifted_columns = 2
    /\ Val(table_check.value).status = SUCCESS

\* C4: with no caller condition, the share test returns SUCCESS exactly when
\* the share is strictly below 3/10, whatever the column count; a share of
\* exactly 3/10 is FAIL and so is a share of 7/20 (0.35).
C4_ShareDefault ==
    (/\ table_test.kind = "share"
     /\ ~has_condition(table_test.condition)
     /\ table_check.ended = "returned") =>
        LET share == Val(table_check.seen).share_of_drifted_columns
            result == Val(table_check.value)
        IN  /\ result.status \in {SUCCESS, FAIL}
            /\ (result.status = SUCCESS) <=> (10 * share[1] < 3 * share[2])
            /\ (10 * share[1] = 3 * share[2]) => result.status = FAIL
            /\ (20 * share[1] = 7 * share[2]) => result.status = FAIL

\* The share test without a condition, evaluated on a share of 7/20.
C4_Witness ==
    /\ table_test.kind = "share"
    /\ ~has_condition(table_test.condition)
    /\ table_check.ended = "returned"
    /\ Val(table_check.seen).share_of_drifted_columns = Frac(7, 20)
    /\ Val(table_check.value).status = FAIL

\* C5: when the caller set at least one condition field, also to 0, the
\* returned status is SUCCESS exactly when the count / share satisfies the
\* caller's condition, and the caller's condition is the one echoed; the
\* default is echoed only when the caller set no field.
C5_CallerConditionDecides ==
    table_check.ended = "returned" =>
        LET table == Val(table_check.seen)
            result == Val(table_check.value)
            value == IF table_test.kind = "number"
                     THEN Frac(table.number_of_drifted_columns, 1)
                     ELSE table.share_of_drifted_columns
            supplied == \E f \in ConditionFields : table_test.condition[f] # None
        IN  /\ supplied =>
                  /\ (result.status = SUCCESS) <=> check_value(table_test.condition, value)
                  /\ (result.status = FAIL) <=> ~check_value(table_test.condition, value)
                  /\ result.parameters.condition = table_test.condition
            /\ (result.parameters.condition # table_test.condition) => ~supplied

\* The count test with lt=0, evaluated on a table with no drifted column of
\* at least 3 columns: the default (lt >= 1) would pass it, lt=0 fails it.
C5_Witness ==
    /\ table_test.kind = "number"
    /\ table_test.condition = Condition1("lt", Frac(0, 1))
    /\ table_check.ended = "returned"
    /\ Val(table_check.seen).number_of_columns >= 3
    /\ Val(table_check.seen).number_of_drifted_columns = 0
    /\ Val(table_check.value).status = FAIL

\* C6: once TestColumnDrift.check() has been called while the metric could
\* not produce a result, the call has returned a TestResult of status ERROR.
C6_ErrorResultOnFailure ==
    (column_check.ended # "not_called" /\ column_check.seen = None) =>
        /\ column_check.ended = "returned"
        /\ Val(column_check.value).status = ERROR

\* C7: once check() of a count or share test has been called while the table
\* computation failed, the call has returned a TestResult of status ERROR.
C7_ErrorResultOnTableFailure ==
    (table_check.ended # "not_called" /\ table_check.seen = None) =>
        /\ table_check.ended = "returned"
        /\ Val(table_check.value).status = ERROR

\* C2: in every generate(), each resolve_stattest_threshold call returns, for
\* the stattest and for the threshold independently, the per-column map's
\* entry when the map passed has the column, else the value passed for the
\* column's type (cat, num, text; none for datetime) when set, else the global
\* value when set, else None; the emitted test carries the returned pair; and
\* the all-features generator resolves each column of a group with that
\* group's type on the layers it was constructed with.  With no layer set
\* both fields are None.
C2_OverridePrecedence ==
    generated.ended = "returned" =>
        LET Winner(name, type, per_column, cat, num, text, global) ==
                CASE per_column # None /\ name \in DOMAIN per_column[1] ->
                        <<per_column[1][name]>>
                  [] OTHER ->
                        LET typed == CASE type = "cat" -> cat
                                       [] type = "num" -> num
                                       [] type = "text" -> text
                                       [] OTHER -> None
                        IN  IF typed # None THEN typed ELSE global
            GroupOf(name) ==
                CASE name \in SeqRange(columns_info.cat_feature_names) -> "cat"
                  [] name \in SeqRange(columns_info.num_feature_names) -> "num"
                  [] OTHER -> "text"
            tests == Val(generated.value)
        IN  /\ Len(resolve_calls) = Len(tests)
            /\ \A i \in 1..Len(resolve_calls) :
                  LET c == resolve_calls[i]
                  IN  /\ c.feature_type \in {"cat", "num", "text", "datetime"}
                      /\ c.returned[1] =
                            Winner(c.feature_name, c.feature_type,
                                   c.per_column_stattest, c.cat_stattest,
                                   c.num_stattest, c.text_stattest, c.stattest)
                      /\ c.returned[2] =
                            Winner(c.feature_name, c.feature_type,
                                   c.per_column_stattest_threshold,
                                   c.cat_stattest_threshold,
                                   c.num_stattest_threshold,
                                   c.text_stattest_threshold,
                                   c.stattest_threshold)
                      /\ tests[i].column_name = c.feature_name
                      /\ tests[i].stattest = c.returned[1]
                      /\ tests[i].stattest_threshold = c.returned[2]
                      /\ (\A f \in OverrideFields : c[f] = None) =>
                            c.returned = <<None, None>>
            /\ generator.kind = "all" =>
                  \A i \in 1..Len(tests) :
                      LET name == tests[i].column_name
                      IN  /\ tests[i].stattest =
                                Winner(name, GroupOf(name),
                                       generator.per_column_stattest,
                                       generator.cat_stattest,
                                       generator.num_stattest,
                                       generator.text_stattest,
                                       generator.stattest)
                          /\ tests[i].stattest_threshold =
                                Winner(name, GroupOf(name),
                                       generator.per_column_stattest_threshold,
                                       generator.cat_stattest_threshold,
                                       generator.num_stattest_threshold,
                                       generator.text_stattest_threshold,
                                       generator.stattest_threshold)

\* The all-features generator with every layer set but the per-column
\* threshold map empty: the test of the numerical column temp takes its
\* stattest from the per-column map and its threshold from the numerical
\* layer, and the test of the categorical column season takes both from the
\* categorical layers.
C2_Witness ==
    /\ generator.kind = "all"
    /\ generated.ended = "returned"
    /\ generator.stattest = Some("psi")
    /\ generator.stattest_threshold = Some(50)
    /\ Len(Val(generated.value)) = 3
    /\ Val(generated.value)[1] =
          TestColumnDrift("season", Some("chisquare"), Some(100), TRUE)
    /\ Val(generated.value)[2] =
          TestColumnDrift("temp", Some("ks"), Some(150), TRUE)

\* C8: without an allow-list the all-features generator returns one test per
\* categorical column, then one per numerical column, then one per text
\* column, each group in schema order; no test for a datetime column; none
\* at all for an empty schema; for categorical [season], numerical [temp] and
\* no overrides exactly the tests of season and temp with stattest and
\* threshold unset.
C8_AllFeaturesOrder ==
    (/\ generator.kind = "all"
     /\ generator.columns = None
     /\ generated.ended = "returned") =>
        LET tests == Val(generated.value)
            expected == columns_info.cat_feature_names
                           \o columns_info.num_feature_names
                           \o columns_info.text_feature_names
        IN  /\ Len(tests) = Len(expected)
            /\ \A i \in 1..Len(tests) :
                  /\ tests[i].column_name = expected[i]
                  /\ tests[i].column_name
                        \notin SeqRange(columns_info.datetime_feature_names)
            /\ expected = << >> => tests = << >>
            /\ (/\ columns_info.cat_feature_names = <<"season">>
                /\ columns_info.num_feature_names = <<"temp">>
                /\ columns_info.text_feature_names = << >>
                /\ \A f \in OverrideFields : generator[f] = None) =>
                  tests = <<TestColumnDrift("season", None, None, TRUE),
                            TestColumnDrift("temp", None, None, TRUE)>>

\* The scenario: categorical [season], numerical [temp], a datetime column,
\* no overrides, no allow-list, and generate() has returned two tests.
C8_Witness ==
    /\ generator.kind = "all"
    /\ generator.columns = None
    /\ \A f \in OverrideFields : generator[f] = None
    /\ columns_info = DatasetColumns(<<"season">>, <<"temp">>, << >>,
                                     <<DatetimeName>>)
    /\ generated.ended = "returned"
    /\ Len(Val(generated.value)) = 2

\* C9: whenever an allow-list is supplied, an empty one included, every test
\* generate() returns is bound to a column of the allow-list, and every
\* categorical, numerical or text column of the schema that is in the
\* allow-list has a test.
C9_AllowListRespected ==
    (/\ generator.kind = "all"
     /\ generator.columns # None
     /\ generated.ended = "returned") =>
        LET tests == Val(generated.value)
            allowed == SeqRange(Val(generator.columns))
            eligible == SeqRange(columns_info.cat_feature_names)
                           \cup SeqRange(columns_info.num_feature_names)
                           \cup SeqRange(columns_info.text_feature_names)
        IN  /\ \A i \in 1..Len(tests) : tests[i].column_name \in allowed
            /\ \A n \in eligible \cap allowed :
                  \E i \in 1..Len(tests) : tests[i].column_name = n

\* C10: the custom-features generator returns as many tests as names listed,
\* the i-th bound to the i-th name, duplicates and names absent from the
\* schema included.
C10_CustomFeaturesOrder ==
    (generator.kind = "custom" /\ generated.ended = "returned") =>
        LET tests == Val(generated.value)
        IN  /\ Len(tests) = Len(generator.features)
            /\ \A i \in 1..Len(tests) :
                  tests[i].column_name = generator.features[i]

\* A feature list naming twice a column the schema does not have,
\* [unknown_col, unknown_col], on a schema with a numerical column, and
\* generate() has returned two tests.
C10_Witness ==
    /\ generator.kind = "custom"
    /\ generator.features = <<UnknownName, UnknownName>>
    /\ columns_info.num_feature_names = <<"temp">>
    /\ generated.ended = "returned"
    /\ Len(Val(generated.value)) = 2

\* C11: for every name the custom-features generator lists, the type passed
\* to resolve_stattest_threshold is cat when the name is in the schema's
\* categorical list, else num when it is in the numerical list, else text
\* when it is in the text list, else datetime; so a column of the text list
\* is resolved with type text.
C11_TypeByMembership ==
    (generator.kind = "custom" /\ generated.ended = "returned") =>
        \A i \in 1..Len(resolve_calls) :
            LET c == resolve_calls[i]
                name == c.feature_name
            IN  /\ name = generator.features[i]
                /\ c.feature_type =
                      CASE name \in SeqRange(columns_info.cat_feature_names) -> "cat"
                        [] name \in SeqRange(columns_info.num_feature_names) -> "num"
                        [] name \in SeqRange(columns_info.text_feature_names) -> "text"
                        [] OTHER -> "datetime"

\* C12: when the schema has no categorical, numerical or text column, the
\* custom-features generator resolves every listed name with type datetime,
\* and each resolved field is the per-column entry of the name, else the
\* global value, never a categorical, numerical or text value.
C12_DatetimeOnEmptySchema ==
    (/\ generator.kind = "custom"
     /\ generated.ended = "returned"
     /\ columns_info.cat_feature_names = << >>
     /\ columns_info.num_feature_names = << >>
     /\ columns_info.text_feature_names = << >>) =>
        /\ Len(resolve_calls) = Len(generator.features)
        /\ \A i \in 1..Len(resolve_calls) :
              LET c == resolve_calls[i]
                  test == Val(generated.value)[i]
              IN  /\ c.feature_type = "datetime"
                  /\ test.stattest =
                        IF /\ generator.per_column_stattest # None
                           /\ c.feature_name \in DOMAIN Val(generator.per_column_stattest)
                        THEN Some(Val(generator.per_column_stattest)[c.feature_name])
                        ELSE generator.stattest
                  /\ test.stattest_threshold
                        \notin {generator.cat_stattest_threshold,
                                generator.num_stattest_threshold,
                                generator.text_stattest_threshold} \ {None}

\* The generator listing unknown_col with every type-specific and global
\* layer set, on a schema that has a datetime column only: generate() has
\* returned the test of unknown_col with the global stattest and threshold.
C12_Witness ==
    /\ generator.kind = "custom"
    /\ generator.features = <<"review", UnknownName>>
    /\ generator.cat_stattest # None
    /\ generator.num_stattest # None
    /\ generator.text_stattest # None
    /\ generator.num_stattest_threshold # None
    /\ columns_info = DatasetColumns(<< >>, << >>, << >>, <<DatetimeName>>)
    /\ generated.ended = "returned"
    /\ Val(generated.value)[2] =
          TestColumnDrift(UnknownName, Some("psi"), Some(50), TRUE)

\* C13: every test the custom-features generator emits for a name that has an
\* entry in the per-column threshold map given at construction carries that
\* entry as its threshold.
C13_PerColumnThresholdApplied ==
    (/\ generator.kind = "custom"
     /\ generated.ended = "returned"
     /\ generator.per_feature_threshold # None) =>
        \A i \in 1..Len(Val(generated.value)) :
            LET test == Val(generated.value)[i]
                given == Val(generator.per_feature_threshold)
            IN  test.column_name \in DOMAIN given =>
                    test.stattest_threshold = Some(given[test.column_name])

\* C17: with no caller condition the count test on a table of fewer than 3
\* columns has the bound lt=0 and returns FAIL whatever the drifted count, 0
\* included; on a table of 3 or more columns with no drifted column it
\* returns SUCCESS.
C17_SmallTablesFail ==
    (/\ table_test.kind = "number"
     /\ \A f \in ConditionFields : table_test.condition[f] = None
     /\ table_check.ended = "returned") =>
        LET N == Val(table_check.seen).number_of_columns
            D == Val(table_check.seen).number_of_drifted_columns
            result == Val(table_check.value)
        IN  /\ N < 3 =>
                  /\ result.parameters.condition.lt = Some(Frac(0, 1))
                  /\ result.status = FAIL
            /\ (N >= 3 /\ D = 0) => result.status = SUCCESS

\* The count test without a condition, evaluated on 2 columns none of which
\* drifted, has returned FAIL.
C17_Witness ==
    /\ table_test.kind = "number"
    /\ \A f \in ConditionFields : table_test.condition[f] = None
    /\ table_check.ended = "returned"
    /\ Val(table_check.seen).number_of_columns = 2
    /\ Val(table_check.seen).number_of_drifted_columns = 0
    /\ Val(table_check.value).status = FAIL

\* C18: in every TestResult of a count or share test the condition echoed in
\* the parameters is the one the description states and the one whose
\* verdict on the count / share is the status; it is the caller's condition
\* when a field was set and else the default of the table read by that
\* evaluation; and the parameters hold one entry per column of that table's
\* drift_by_columns, with the column's drift_detected as detected.
C18_EchoedConditionAndColumns ==
    table_check.ended = "returned" =>
        LET table == Val(table_check.seen)
            result == Val(table_check.value)
            echoed == result.parameters.condition
            features == result.parameters.features
            value == IF table_test.kind = "number"
                     THEN Frac(table.number_of_drifted_columns, 1)
                     ELSE table.share_of_drifted_columns
            supplied == \E f \in ConditionFields : table_test.condition[f] # None
        IN  /\ result.description[Len(result.description)] = echoed
            /\ (result.status = SUCCESS) <=> check_value(echoed, value)
            /\ (result.status = FAIL) <=> ~check_value(echoed, value)
            /\ supplied => echoed = table_test.condition
            /\ (~supplied /\ table_test.kind = "number") =>
                  echoed = Condition1("lt", Frac(table.number_of_columns \div 3, 1))
            /\ (~supplied /\ table_test.kind = "share") =>
                  echoed = Condition1("lt", Frac(3, 10))
            /\ DOMAIN features = 1..Len(table.drift_by_columns)
            /\ \A i \in DOMAIN features :
                  features[i].detected = table.drift_by_columns[i].drift_detected

\* The share test without a condition, evaluated on 7 columns of which 2
\* drifted, has returned SUCCESS with seven entries, two of them detected.
C18_Witness ==
    /\ table_test.kind = "share"
    /\ \A f \in ConditionFields : table_test.condition[f] = None
    /\ table_check.ended = "returned"
    /\ Val(table_check.seen).number_of_columns = 7
    /\ Val(table_check.seen).number_of_drifted_columns = 2
    /\ Val(table_check.value).status = SUCCESS
    /\ Len(Val(table_check.value).parameters.features) = 7
    /\ Cardinality({i \in 1..7 :
          Val(table_check.value).parameters.features[i].detected}) = 2

\* C14: two successive check() calls of the same TestColumnDrift that read
\* the same outcome of the metric return TestResults with the same name,
\* description, status, group, groups and parameters, and no step changes
\* the test's column name, stattest or threshold.
C14_CheckIdempotent ==
    /\ [](( /\ column_repeat.ended = "returned"
            /\ column_check.ended = "returned"
            /\ column_repeat.seen = column_check.seen ) =>
          LET first == Val(column_repeat.value)
              second == Val(column_check.value)
          IN  /\ first.name = second.name
              /\ first.description = second.description
              /\ first.status = second.status
              /\ first.group = second.group
              /\ first.groups = second.groups
              /\ first.parameters = second.parameters)
    /\ [][ /\ column_test'.column_name = column_test.column_name
           /\ column_test'.stattest = column_test.stattest
           /\ column_test'.stattest_threshold = column_test.stattest_threshold
         ]_vars

\* Two successive calls have returned on the same outcome, a detected drift
\* whose score rounding changes (0.1235 is reported as 0.124).
C14_Witness ==
    /\ column_repeat.ended = "returned"
    /\ column_check.ended = "returned"
    /\ column_repeat.seen = column_check.seen
    /\ Val(column_check.seen).drift_detected
    /\ Val(column_check.seen).drift_score = 1235
    /\ Val(column_check.value).status = FAIL
    /\ Val(column_repeat.value).status = FAIL

\* C15: TestEmbeddingsDrift.check() returns FAIL exactly when the outcome
\* has drift_detected, SUCCESS otherwise, whatever the score and the test's
\* drift_method; the description says "detected" exactly when the status is
\* FAIL and "not detected" exactly when it is SUCCESS.
C15_EmbeddingsStatusFollowsDetected ==
    embeddings_check.ended = "returned" =>
        LET drift_info == Val(embeddings_check.seen)
            result == Val(embeddings_check.value)
        IN  /\ result.status \in {SUCCESS, FAIL}
            /\ (result.status = FAIL) <=> drift_info.drift_detected
            /\ (result.status = SUCCESS) <=> ~drift_info.drift_detected
            /\ (result.description[1] = "detected") <=> (result.status = FAIL)
            /\ (result.description[1] = "not detected") <=>
                  (result.status = SUCCESS)

\* check() has returned FAIL with the wording "detected" on a detected
\* drift whose score 0.0499 is low.
C15_Witness ==
    /\ embeddings_check.ended = "returned"
    /\ Val(embeddings_check.seen).drift_detected
    /\ Val(embeddings_check.seen).drift_score = 499
    /\ Val(embeddings_check.value).status = FAIL
    /\ Val(embeddings_check.value).description[1] = "detected"

\* C16: generate() of either generator leaves the generator (overrides,
\* allow-list or feature list) and the schema unchanged; a call returns the
\* same sequence of tests as the call before it; and every test of the
\* sequence is the one test the generator emits when that column alone is
\* listed, whatever was emitted before it.
C16_NoHiddenState ==
    /\ [][generator' = generator /\ columns_info' = columns_info]_vars
    /\ [](( /\ generated_before.ended = "returned"
            /\ generated.ended = "returned" ) =>
          Val(generated.value) = Val(generated_before.value))
    /\ [](generated.ended = "returned" =>
          LET tests == Val(generated.value)
              Only(name) ==
                  IF generator.kind = "all"
                  THEN [generator EXCEPT !.columns = Some(<<name>>)]
                  ELSE [generator EXCEPT !.features = <<name>>]
              Alone(name) ==
                  TestsOfCalls(Only(name),
                      IF generator.kind = "all"
                      THEN AllFeaturesCalls(Only(name), columns_info)
                      ELSE CustomFeaturesCalls(Only(name), columns_info))
          IN  \A i \in 1..Len(tests) :
                 Alone(tests[i].column_name) = <<tests[i]>>)

\* generate() of the custom generator has returned twice on a feature list
\* that names the same column twice, with a per-column stattest for it.
C16_Witness ==
    /\ generator.kind = "custom"
    /\ generator.features = <<"temp", "temp">>
    /\ generator.per_column_stattest # None
    /\ generated_before.ended = "returned"
    /\ generated.ended = "returned"
    /\ Len(Val(generated.value)) = 2

====
